---- MODULE Spec2Model ----
\* PDF extraction agent: the three extraction tools (pdf_reader, table_extractor,
\* image_extractor) and the four-node workflow of PDFExtractionAgent.
\*
\* Python strings are sequences of one-character strings, Python lists are
\* sequences, Python dicts are functions over their keys, None is the empty
\* option <<>> and a present optional value x is <<x>>.
\*
\* The outside world (pypdf, pdf2image, camelot, the chat model) is a
\* nondeterministic choice among results and a raised exception at each call.
\* Constructing the default chat client inside a tool is taken to succeed.
EXTENDS Integers, Sequences, FiniteSets, TLC

\* ---------------------------------------------------------------- bounds
\* Largest number of pages of a document.
MaxPages == 2

\* ------------------------------------------------------ program constants
\* pdf_reader.py:80, len(words) < 100
TokenThreshold == 100

\* ------------------------------------------------------------- options
None == <<>>
Some(x) == <<x>>

\* ------------------------------------------------------------- strings
NL2 == <<"\n", "\n">>
PagePrefix == <<"P", "a", "g", "e", " ">>
ColonNL == <<":", "\n">>
NoTablesFound == <<"N", "o", " ", "t", "a", "b", "l", "e", "s", " ", "f", "o", "u", "n", "d">>
NoTablesExtracted == <<"N", "o", " ", "t", "a", "b", "l", "e", "s", " ", "e", "x", "t", "r", "a", "c", "t", "e", "d">>
NoImagesExtracted == <<"N", "o", " ", "i", "m", "a", "g", "e", "s", " ", "e", "x", "t", "r", "a", "c", "t", "e", "d">>
DescriptionUnavailable == <<"I", "m", "a", "g", "e", " ", "d", "e", "s", "c", "r", "i", "p", "t", "i", "o", "n", " ", "u", "n", "a", "v", "a", "i", "l", "a", "b", "l", "e">>
All == <<"a", "l", "l">>
OneToEnd == <<"1", "-", "e", "n", "d">>
DefaultModel == "gpt-4o"

\* str.isspace for the characters the model uses.
IsSpace(c) == c \in {" ", "\n", "\t"}

\* len(text.split()): the number of maximal runs of non-whitespace characters.
SplitCount(s) ==
    Cardinality({k \in 1..Len(s) : ~IsSpace(s[k]) /\ (k = 1 \/ IsSpace(s[k - 1]))})

\* sub in s
Contains(s, sub) ==
    \E k \in 0..(Len(s) - Len(sub)) : SubSeq(s, k + 1, k + Len(sub)) = sub

Digit(d) == SubSeq(<<"0", "1", "2", "3", "4", "5", "6", "7", "8", "9">>, d + 1, d + 1)

\* str(n) for n >= 0, as the f-strings format page and table numbers.
RECURSIVE ToStr(_)
ToStr(n) == IF n < 10 THEN Digit(n) ELSE ToStr(n \div 10) \o Digit(n % 10)

\* n words separated by single spaces.
RECURSIVE Words(_)
Words(n) == IF n = 0 THEN <<>>
            ELSE IF n = 1 THEN <<"w">>
            ELSE Words(n - 1) \o <<" ", "w">>

\* ------------------------------------------------- the outside world
\* What page.extract_text() can give for one page: nothing, whitespace only,
\* a short line, and two page bodies that sum to one token less than the
\* threshold, to the threshold, or to more over two or three pages.
PageTexts ==
    { <<>>,
      <<" ">>,
      <<"H", "e", "l", "l", "o", " ", "w", "o", "r", "l", "d">>,
      Words(TokenThreshold \div 2 - 1),
      Words(TokenThreshold \div 2) }

\* What the model can answer to the transcription request.
OcrResponses == { <<>>, <<"o", "c", "r">> }

\* Page selectors a caller can pass to extract_tables.
Selectors ==
    { All,
      <<"1">>,
      <<"2", ",", "1">>,
      <<"1", "-", "2">>,
      <<"1", ",", "3", ",", "5", "-", "7">>,
      <<"0">>,
      <<"9", ",", "1">>,
      <<"1", ",", "x">>,
      <<"2", "-">> }

\* What the model can answer to the merge request.
CombineResponses == { <<"#", " ", "d", "o", "c">> }

\* An external call either returns a value or raises.
Ok(v) == [ok |-> TRUE, val |-> v]
Raise == [ok |-> FALSE]
Outcomes(S) == {Ok(v) : v \in S} \cup {Raise}

VARIABLES
    entry,                \* the public operation the caller invoked
    argv,                 \* the flags given to the extract command
    config,               \* extract: config (option of a PDFExtractionConfig)
    exit_code,            \* extract: the value the command returned (option)
    doc,                  \* the input document: [readable, npages]
    openai_model,         \* the model the agent was constructed with
    llm,                  \* the llm argument of the running tool (option of a model name)
    fallback_to_llm_ocr,  \* argument of extract_text
    pages,                \* argument of extract_tables
    save_images,          \* argument of extract_images
    pc,                   \* position in the code
    state,                \* PDFExtractionState, the workflow's state dict
    trace,                \* functions entered so far, in order
    calls,                \* external calls issued so far, in order
    text,                 \* extract_text / _extract_with_pypdf: text
    page_text,            \* _extract_with_pypdf: page_text
    all_text,             \* _extract_with_llm_ocr: all_text
    tables,               \* extract_tables: tables
    page_indices,         \* _extract_with_llm: page_indices
    result,               \* _extract_with_llm / extract_images: result
    images,               \* rasterized page images held by the running tool
    i,                    \* loop index of the running loop
    prompt,               \* _combine_results: prompt
    ret,                  \* value the running tool returns
    outcome,              \* "running", "returned" or "raised"
    final                 \* what the caller of the public operation received

vars == <<entry, argv, config, exit_code, doc, openai_model, llm, fallback_to_llm_ocr, pages, save_images,
          pc, state, trace, calls, text, page_text, all_text, tables, page_indices, result,
          images, i, prompt, ret, outcome, final>>

args == <<llm, fallback_to_llm_ocr, pages, save_images>>
cli == <<argv, config, exit_code>>
env == <<entry, cli, doc, openai_model>>
hist == <<trace, calls>>
txt == <<text, page_text, all_text>>
tbl == <<tables, page_indices>>
locals == <<txt, tbl, result, images, i, prompt>>
out == <<outcome, final>>

\* The text an external call handed back, "" when it raised.
Returned(r) == IF r.ok THEN r.val ELSE <<>>

\* An external call: the function that issued it, the function called, the page
\* or page image concerned (0 when none), the model asked ("" when none), the
\* pages or file name argument, whether the call returned (ok) or raised, and
\* the text a model answered ("" for any other call).
Call(by, fn, page, model, arg, ok, val) ==
    [by |-> by, fn |-> fn, page |-> page, model |-> model, arg |-> arg, ok |-> ok,
     val |-> val]

Docs == [readable : BOOLEAN, npages : 0..MaxPages]

\* A document that cannot be opened makes every reader raise; any call on a
\* readable document may still raise.
ReadOutcomes(S) == IF doc.readable THEN Outcomes(S) ELSE {Raise}

\* What a direct caller of a tool can pass as llm: nothing, or its own client.
CallerModel == "caller-llm"

\* The model an agent is constructed with: one other than the model the tools
\* pick for themselves, so that the two can be told apart (agent.py:36).
AgentModels == {"gpt-4o-mini"}

PdfPath == "document.pdf"

\* The run drives the workflow: process was called by a program, or by the
\* extract command.
Pipeline == entry \in {"process", "extract"}

Init ==
    /\ entry \in {"process", "extract_text", "extract_tables", "extract_images"}
    /\ doc \in Docs
    /\ openai_model \in (IF entry = "process" THEN AgentModels ELSE {DefaultModel})
    /\ llm \in (IF entry = "process" THEN {None} ELSE {None, Some(CallerModel)})
    /\ fallback_to_llm_ocr \in (IF entry = "extract_text" THEN BOOLEAN ELSE {TRUE})
    /\ pages \in (IF entry = "extract_tables" THEN Selectors ELSE {All})
    /\ save_images \in (IF entry = "extract_images" THEN BOOLEAN ELSE {FALSE})
    /\ argv = {}
    /\ config = None
    /\ exit_code = None
    /\ pc = entry
    /\ state = <<>>
    /\ trace = <<>>
    /\ calls = <<>>
    /\ text = <<>>
    /\ page_text = <<>>
    /\ all_text = <<>>
    /\ tables = <<>>
    /\ page_indices = <<>>
    /\ result = <<>>
    /\ prompt = <<>>
    /\ images = <<>>
    /\ i = 0
    /\ ret = <<>>
    /\ outcome = "running"
    /\ final = <<>>

\* ------------------------------------------------------ PDFReaderTool

\* Mutation: the threshold is applied to the number of characters.
_is_text_incomplete_by_chars(t) ==
    IF t = <<>> THEN TRUE
    ELSE IF Len(t) < TokenThreshold THEN TRUE
    ELSE FALSE

\* Mutation: a text of exactly the threshold counts as incomplete.
_is_text_incomplete_inclusive(t) ==
    IF t = <<>> THEN TRUE
    ELSE IF SplitCount(t) <= TokenThreshold THEN TRUE
    ELSE FALSE

\* pdf_reader.py:72-83
_is_text_incomplete(t) ==
    IF t = <<>> THEN TRUE
    ELSE IF SplitCount(t) < TokenThreshold THEN TRUE
    ELSE FALSE

\* Mutation: only an empty text is escalated to the LLM OCR.
UsesLlmOcr_only_empty(t, fallback) == t = <<>>

\* pdf_reader.py:35, the condition under which extract_text calls the LLM OCR.
UsesLlmOcr(t, fallback) == t = <<>> \/ (fallback /\ _is_text_incomplete(t))

\* pdf_reader.py:36-40, the client a tool uses: the one passed, or a new gpt-4o one.
LlmOrDefault(l) == IF l = None THEN Some(DefaultModel) ELSE l

\* pdf_reader.py:32, 49-53: extract_text starts _extract_with_pypdf, which opens
\* the file and the reader; an exception makes it return "" (67-70).
_extract_with_pypdf_open ==
    /\ pc = "extract_text"
    /\ trace' = Append(trace, "_extract_with_pypdf")
    /\ \E r \in ReadOutcomes({doc.npages}) :
          /\ calls' = Append(calls, Call("_extract_with_pypdf", "PdfReader", 0, "", <<>>, r.ok, <<>>))
          /\ pc' = IF r.ok THEN "_extract_with_pypdf_page" ELSE "extract_text_if"
    /\ text' = <<>>
    /\ page_text' = <<>>
    /\ i' = 0
    /\ UNCHANGED <<env, args, state, all_text, tbl, result, images, prompt, ret, out>>

\* Mutation: the page's text is put before the text of the earlier pages.
AppendPage_prepending(t, p) == IF p # <<>> THEN p \o NL2 \o t ELSE t

\* pdf_reader.py:60-61, `if page_text: text += page_text + "\n\n"`.
AppendPage(t, p) == IF p # <<>> THEN t \o p \o NL2 ELSE t

\* Mutation: after a page that raised, the text of the earlier pages is returned.
_extract_with_pypdf_page_keeping_text ==
    /\ pc = "_extract_with_pypdf_page"
    /\ i < doc.npages
    /\ \E r \in Outcomes(PageTexts) :
          /\ calls' = Append(calls, Call("_extract_with_pypdf", "extract_text", i + 1, "",
                                        <<>>, r.ok, <<>>))
          /\ IF r.ok
             THEN /\ page_text' = r.val
                  /\ text' = AppendPage(text, r.val)
                  /\ i' = i + 1
                  /\ pc' = pc
             ELSE /\ page_text' = <<>>
                  /\ text' = text
                  /\ i' = i
                  /\ pc' = "extract_text_if"
    /\ UNCHANGED <<env, args, state, trace, all_text, tbl, result, images, prompt, ret, out>>

\* pdf_reader.py:54-63, one iteration of the page loop; an exception in
\* page.extract_text() leaves the loop through the handler at 67-70, which
\* returns "".
_extract_with_pypdf_page ==
    /\ pc = "_extract_with_pypdf_page"
    /\ i < doc.npages
    /\ \E r \in Outcomes(PageTexts) :
          /\ calls' = Append(calls, Call("_extract_with_pypdf", "extract_text", i + 1, "",
                                        <<>>, r.ok, <<>>))
          /\ IF r.ok
             THEN /\ page_text' = r.val
                  /\ text' = AppendPage(text, r.val)
                  /\ i' = i + 1
                  /\ pc' = pc
             ELSE /\ page_text' = <<>>
                  /\ text' = <<>>
                  /\ i' = i
                  /\ pc' = "extract_text_if"
    /\ UNCHANGED <<env, args, state, trace, all_text, tbl, result, images, prompt, ret, out>>

\* pdf_reader.py:64-66, the loop is over and _extract_with_pypdf returns text.
_extract_with_pypdf_return ==
    /\ pc = "_extract_with_pypdf_page"
    /\ i = doc.npages
    /\ page_text' = <<>>
    /\ pc' = "extract_text_if"
    /\ UNCHANGED <<env, args, state, hist, text, all_text, tbl, result, images, i, prompt,
                   ret, out>>

\* pdf_reader.py:35-43, the escalation decision of extract_text. text keeps the
\* result of _extract_with_pypdf; ret is what extract_text goes on to return.
extract_text_if ==
    /\ pc = "extract_text_if"
    /\ IF UsesLlmOcr(text, fallback_to_llm_ocr)
       THEN /\ llm' = LlmOrDefault(llm)
            /\ pc' = "_extract_with_llm_ocr"
            /\ ret' = ret
       ELSE /\ llm' = llm
            /\ pc' = "extract_text_return"
            /\ ret' = text
    /\ UNCHANGED <<env, fallback_to_llm_ocr, pages, save_images, state, hist, locals, out>>

\* pdf_reader.py:89-98, _extract_with_llm_ocr rasterizes the document; an
\* exception makes it return "" (155-158).
_extract_with_llm_ocr_convert ==
    /\ pc = "_extract_with_llm_ocr"
    /\ trace' = Append(trace, "_extract_with_llm_ocr")
    /\ \E r \in ReadOutcomes({[k \in 1..doc.npages |-> k]}) :
          /\ calls' = Append(calls, Call("_extract_with_llm_ocr", "convert_from_path", 0, "",
                                        <<>>, r.ok, <<>>))
          /\ IF r.ok
             THEN /\ images' = r.val
                  /\ pc' = "_extract_with_llm_ocr_page"
                  /\ ret' = ret
             ELSE /\ images' = images
                  /\ pc' = "extract_text_return"
                  /\ ret' = <<>>
    /\ all_text' = <<>>
    /\ page_text' = <<>>
    /\ i' = 0
    /\ UNCHANGED <<env, args, state, text, page_text, tbl, result, prompt, out>>

\* Mutation: the block is numbered with the 0-based loop index.
PageBlock_zero_based(n, answer) == PagePrefix \o ToStr(n - 1) \o ColonNL \o answer \o NL2

\* pdf_reader.py:145, the block one page adds to the transcript.
PageBlock(n, answer) == PagePrefix \o ToStr(n) \o ColonNL \o answer \o NL2

\* Mutation: a failed transcription request is raised to the caller of
\* extract_text instead of being logged.
_extract_with_llm_ocr_page_raising ==
    /\ pc = "_extract_with_llm_ocr_page"
    /\ i < Len(images)
    /\ \E r \in Outcomes(OcrResponses) :
          /\ calls' = Append(calls, Call("_extract_with_llm_ocr", "invoke", images[i + 1],
                                        llm[1], <<>>, r.ok, Returned(r)))
          /\ IF r.ok
             THEN /\ all_text' = all_text \o PageBlock(i + 1, r.val)
                  /\ i' = i + 1
                  /\ pc' = pc
                  /\ ret' = ret
                  /\ outcome' = outcome
             ELSE /\ all_text' = all_text
                  /\ i' = i
                  /\ pc' = "done"
                  /\ ret' = <<>>
                  /\ outcome' = "raised"
    /\ UNCHANGED <<env, args, state, trace, text, page_text, tbl, result, images, prompt, final>>

\* Mutation: after a failed transcription request the text transcribed so far
\* is returned.
_extract_with_llm_ocr_page_keeping_text ==
    /\ pc = "_extract_with_llm_ocr_page"
    /\ i < Len(images)
    /\ \E r \in Outcomes(OcrResponses) :
          /\ calls' = Append(calls, Call("_extract_with_llm_ocr", "invoke", images[i + 1],
                                        llm[1], <<>>, r.ok, Returned(r)))
          /\ IF r.ok
             THEN /\ all_text' = all_text \o PageBlock(i + 1, r.val)
                  /\ i' = i + 1
                  /\ pc' = pc
                  /\ ret' = ret
             ELSE /\ all_text' = all_text
                  /\ i' = i
                  /\ pc' = "extract_text_return"
                  /\ ret' = all_text
    /\ UNCHANGED <<env, args, state, trace, text, page_text, tbl, result, images, prompt, out>>

\* Mutation: a failed transcription request is issued again for the same page.
_extract_with_llm_ocr_page_retrying ==
    /\ pc = "_extract_with_llm_ocr_page"
    /\ i < Len(images)
    /\ \E r \in Outcomes(OcrResponses) :
          /\ calls' = Append(calls, Call("_extract_with_llm_ocr", "invoke", images[i + 1],
                                        llm[1], <<>>, r.ok, Returned(r)))
          /\ IF r.ok
             THEN /\ all_text' = all_text \o PageBlock(i + 1, r.val)
                  /\ i' = i + 1
             ELSE /\ all_text' = all_text
                  /\ i' = i
          /\ pc' = pc
          /\ ret' = ret
    /\ UNCHANGED <<env, args, state, trace, text, page_text, tbl, result, images, prompt, out>>

\* Mutation: after a failed transcription request extract_text falls back on
\* the text of the deterministic extraction.
_extract_with_llm_ocr_page_falling_back ==
    /\ pc = "_extract_with_llm_ocr_page"
    /\ i < Len(images)
    /\ \E r \in Outcomes(OcrResponses) :
          /\ calls' = Append(calls, Call("_extract_with_llm_ocr", "invoke", images[i + 1],
                                        llm[1], <<>>, r.ok, Returned(r)))
          /\ IF r.ok
             THEN /\ all_text' = all_text \o PageBlock(i + 1, r.val)
                  /\ i' = i + 1
                  /\ pc' = pc
                  /\ ret' = ret
             ELSE /\ all_text' = all_text
                  /\ i' = i
                  /\ pc' = "extract_text_return"
                  /\ ret' = text
    /\ UNCHANGED <<env, args, state, trace, text, page_text, tbl, result, images, prompt, out>>

\* pdf_reader.py:100-148, one iteration: one request for page i+1; an exception
\* leaves the loop through the handler at 155-158, which returns "".
_extract_with_llm_ocr_page ==
    /\ pc = "_extract_with_llm_ocr_page"
    /\ i < Len(images)
    /\ \E r \in Outcomes(OcrResponses) :
          /\ calls' = Append(calls, Call("_extract_with_llm_ocr", "invoke", images[i + 1],
                                        llm[1], <<>>, r.ok, Returned(r)))
          /\ IF r.ok
             THEN /\ all_text' = all_text \o PageBlock(i + 1, r.val)
                  /\ i' = i + 1
                  /\ pc' = pc
                  /\ ret' = ret
             ELSE /\ all_text' = all_text
                  /\ i' = i
                  /\ pc' = "extract_text_return"
                  /\ ret' = <<>>
    /\ UNCHANGED <<env, args, state, trace, text, page_text, tbl, result, images, prompt, out>>

\* pdf_reader.py:150-154, the loop is over and the transcript is returned.
_extract_with_llm_ocr_return ==
    /\ pc = "_extract_with_llm_ocr_page"
    /\ i = Len(images)
    /\ ret' = all_text
    /\ pc' = "extract_text_return"
    /\ UNCHANGED <<env, args, state, hist, locals, out>>

\* pdf_reader.py:43, extract_text returns to the program that called the tool.
extract_text_return ==
    /\ pc = "extract_text_return"
    /\ ~Pipeline
    /\ pc' = "done"
    /\ outcome' = "returned"
    /\ final' = ret
    /\ text' = <<>>
    /\ all_text' = <<>>
    /\ page_text' = <<>>
    /\ images' = <<>>
    /\ i' = 0
    /\ UNCHANGED <<env, args, state, hist, tbl, result, prompt, ret>>

\* ---------------------------------------------------- TableExtractorTool

\* str.split(sep) for a one-character separator: the pieces between separators.
RECURSIVE Split(_, _)
Split(s, sep) ==
    IF \A k \in 1..Len(s) : s[k] # sep THEN <<s>>
    ELSE LET k == CHOOSE j \in 1..Len(s) : s[j] = sep /\ \A m \in 1..(j - 1) : s[m] # sep
         IN  <<SubSeq(s, 1, k - 1)>> \o Split(SubSeq(s, k + 1, Len(s)), sep)

\* str.strip() for the whitespace the model uses.
RECURSIVE Strip(_)
Strip(s) ==
    IF s = <<>> THEN s
    ELSE IF IsSpace(s[1]) THEN Strip(Tail(s))
    ELSE IF IsSpace(s[Len(s)]) THEN Strip(SubSeq(s, 1, Len(s) - 1))
    ELSE s

DigitValue(c) == CHOOSE d \in 0..9 : Digit(d) = <<c>>
IsDigit(c) == \E d \in 0..9 : Digit(d) = <<c>>

RECURSIVE DigitsValue(_)
DigitsValue(s) ==
    IF s = <<>> THEN 0 ELSE 10 * DigitsValue(SubSeq(s, 1, Len(s) - 1)) + DigitValue(s[Len(s)])

\* int(s) for unsigned decimal text with surrounding whitespace: the value, or
\* None where Python raises ValueError.
ParseInt(s) ==
    LET t == Strip(s)
    IN  IF t # <<>> /\ \A k \in 1..Len(t) : IsDigit(t[k]) THEN Some(DigitsValue(t)) ELSE None

\* Mutation: the end of a range is left out.
Range_exclusive(a, b) == [k \in 1..(b - a) |-> a + k - 1]

\* range(a, b + 1) as a list
Range(a, b) == [k \in 1..(b - a + 1) |-> a + k - 1]

\* table_extractor.py:119-123, the pages one part of the selector names, or
\* Raise where map(int, ...) or the unpacking raises ValueError.
ParsePart(part) ==
    IF Contains(part, <<"-">>)
    THEN LET pieces == Split(part, "-")
         IN  IF Len(pieces) = 2 /\ ParseInt(pieces[1]) # None /\ ParseInt(pieces[2]) # None
             THEN Ok(Range(ParseInt(pieces[1])[1], ParseInt(pieces[2])[1]))
             ELSE Raise
    ELSE IF ParseInt(part) # None THEN Ok(<<ParseInt(part)[1]>>) ELSE Raise

RECURSIVE ParseParts(_)
ParseParts(parts) ==
    IF parts = <<>> THEN Ok(<<>>)
    ELSE LET head == ParsePart(parts[1])
             rest == ParseParts(Tail(parts))
         IN  IF ~head.ok THEN Raise
             ELSE IF ~rest.ok THEN Raise
             ELSE Ok(head.val \o rest.val)

\* table_extractor.py:117-124, page_indices (0-based) for a selector other than "all".
ParsePages(sel) ==
    LET nums == ParseParts(Split(sel, ","))
    IN  IF nums.ok THEN Ok([k \in 1..Len(nums.val) |-> nums.val[k] - 1]) ELSE Raise

\* images[i] with Python's indexing of a list of n elements: negative indices
\* count from the end, anything outside -n..n-1 raises IndexError.
PyIndexOk(idx, n) == -n <= idx /\ idx < n
PyIndex(list, idx) == IF idx >= 0 THEN list[idx + 1] ELSE list[Len(list) + idx + 1]

\* table_extractor.py:129, [images[i] for i in page_indices if i < len(images)]
RECURSIVE SelectImages(_, _)
SelectImages(imgs, idxs) ==
    IF idxs = <<>> THEN Ok(<<>>)
    ELSE LET rest == SelectImages(imgs, Tail(idxs))
         IN  IF ~(idxs[1] < Len(imgs)) THEN rest
             ELSE IF ~PyIndexOk(idxs[1], Len(imgs)) THEN Raise
             ELSE IF ~rest.ok THEN Raise
             ELSE Ok(<<PyIndex(imgs, idxs[1])>> \o rest.val)

\* A table as camelot hands it over: its page and its cells, row by row.
Cells == << << <<"a">>, <<"b">> >> >>
CamelotTable(p) == [page |-> p, df |-> Cells]

\* What camelot.read_pdf can detect in a document of n pages, in the order it
\* emits the tables.
CamelotResults(n) ==
    {<<>>}
    \cup (IF n >= 1 THEN {<<CamelotTable(1)>>} ELSE {})
    \cup (IF n >= 2 THEN {<<CamelotTable(2), CamelotTable(1)>>} ELSE {})

RECURSIVE JoinCells(_)
JoinCells(row) ==
    IF row = <<>> THEN <<"|">> ELSE <<"|">> \o row[1] \o JoinCells(Tail(row))

\* table_extractor.py:78, df.to_markdown(index=False): one line per row.
RECURSIVE ToMarkdown(_)
ToMarkdown(df) ==
    IF df = <<>> THEN <<>> ELSE JoinCells(df[1]) \o <<"\n">> \o ToMarkdown(Tail(df))

\* table_extractor.py:84, df.to_dict(orient="records"): one dict per row, keyed
\* by camelot's column labels 0, 1, ...
ToDictRecords(df) == [r \in 1..Len(df) |-> [c \in 0..(Len(df[r]) - 1) |-> df[r][c + 1]]]

\* table_extractor.py:80-86
CamelotRecord(t) ==
    [page |-> t.page, markdown |-> ToMarkdown(t.df), data |-> Some(ToDictRecords(t.df))]

\* Mutation: a record of the LLM method carries an empty list of rows.
LlmRecord_with_rows(page_num, markdown_tables) ==
    [page |-> page_num, markdown |-> markdown_tables, data |-> Some(<<>>)]

\* table_extractor.py:180-186
LlmRecord(page_num, markdown_tables) ==
    [page |-> page_num, markdown |-> markdown_tables, data |-> None]

\* What the model can answer to the table request: the sentinel, the sentinel
\* inside a sentence, a table.
TableResponses == { NoTablesFound, NoTablesFound \o <<".">>, <<"|", "x", "|">> }

\* table_extractor.py:51-52, the pages argument handed to camelot.
CamelotPages(sel) == IF sel = All THEN OneToEnd ELSE sel

\* table_extractor.py:32, 45-97: extract_tables runs _extract_with_camelot; an
\* exception anywhere in it makes it return [].
_extract_with_camelot ==
    /\ pc = "extract_tables"
    /\ trace' = Append(trace, "_extract_with_camelot")
    /\ \E r \in ReadOutcomes(CamelotResults(doc.npages)) :
          /\ calls' = Append(calls, Call("_extract_with_camelot", "read_pdf", 0, "",
                                        CamelotPages(pages), r.ok, <<>>))
          /\ tables' = IF r.ok THEN [k \in 1..Len(r.val) |-> CamelotRecord(r.val[k])]
                       ELSE <<>>
    /\ pc' = "extract_tables_if"
    /\ UNCHANGED <<env, args, state, txt, page_indices, result, images, i, prompt, ret, out>>

\* Mutation: the LLM method is used when camelot did find tables.
UsesLlmTables_inverted(t) == t # <<>>

\* table_extractor.py:35, the condition under which extract_tables calls the LLM.
UsesLlmTables(t) == t = <<>>

\* table_extractor.py:35-43, the fallback decision of extract_tables.
extract_tables_if ==
    /\ pc = "extract_tables_if"
    /\ IF UsesLlmTables(tables)
       THEN /\ llm' = LlmOrDefault(llm)
            /\ pc' = "_extract_with_llm"
            /\ ret' = ret
       ELSE /\ llm' = llm
            /\ pc' = "extract_tables_return"
            /\ ret' = tables
    /\ UNCHANGED <<env, fallback_to_llm_ocr, pages, save_images, state, hist, locals, out>>

\* table_extractor.py:110-130, the images and page_indices _extract_with_llm
\* works on once the document is rasterized into imgs, or Raise.
\* The selectors of the model, each parsed once.
ParsedPages == [sel \in Selectors |-> ParsePages(sel)]

SelectPages(sel, imgs) ==
    IF sel = All
    THEN Ok([images |-> imgs, page_indices |-> [k \in 1..Len(imgs) |-> k - 1]])
    ELSE LET idxs == ParsedPages[sel]
         IN  IF ~idxs.ok THEN Raise
             ELSE IF ~SelectImages(imgs, idxs.val).ok THEN Raise
             ELSE Ok([images |-> SelectImages(imgs, idxs.val).val, page_indices |-> idxs.val])

\* table_extractor.py:105-135, _extract_with_llm up to its page loop: parse the
\* selector, rasterize, select the images. The selector is parsed before the
\* document is rasterized; any exception makes _extract_with_llm return []
\* (196-199).
_extract_with_llm_convert ==
    /\ pc = "_extract_with_llm"
    /\ trace' = Append(trace, "_extract_with_llm")
    /\ IF pages # All /\ ~ParsedPages[pages].ok
       THEN /\ ret' = <<>>
            /\ pc' = "extract_tables_return"
            /\ UNCHANGED <<calls, images, page_indices>>
       ELSE \E r \in ReadOutcomes({[k \in 1..doc.npages |-> k]}) :
               /\ calls' = Append(calls, Call("_extract_with_llm", "convert_from_path", 0, "",
                                             <<>>, r.ok, <<>>))
               /\ IF r.ok /\ SelectPages(pages, r.val).ok
                  THEN /\ images' = SelectPages(pages, r.val).val.images
                       /\ page_indices' = SelectPages(pages, r.val).val.page_indices
                       /\ pc' = "_extract_with_llm_page"
                       /\ ret' = ret
                  ELSE /\ ret' = <<>>
                       /\ pc' = "extract_tables_return"
                       /\ UNCHANGED <<images, page_indices>>
    /\ result' = <<>>
    /\ i' = 0
    /\ UNCHANGED <<env, args, state, txt, tables, prompt, out>>

\* Mutation: every answer yields a record.
HasTables_always(markdown_tables) == TRUE

\* table_extractor.py:178, whether a response yields a record.
HasTables(markdown_tables) == ~Contains(markdown_tables, NoTablesFound)

\* Mutation: after a failed request the records collected so far are returned.
_extract_with_llm_page_keeping_result ==
    /\ pc = "_extract_with_llm_page"
    /\ i < Len(images)
    /\ \E r \in Outcomes(TableResponses) :
          /\ calls' = Append(calls, Call("_extract_with_llm", "invoke", images[i + 1],
                                        llm[1], <<>>, r.ok, Returned(r)))
          /\ IF r.ok
             THEN /\ result' = (IF HasTables(r.val)
                                THEN Append(result, LlmRecord(page_indices[i + 1] + 1, r.val))
                                ELSE result)
                  /\ i' = i + 1
                  /\ pc' = pc
                  /\ ret' = ret
             ELSE /\ result' = result
                  /\ i' = i
                  /\ pc' = "extract_tables_return"
                  /\ ret' = result
    /\ UNCHANGED <<env, args, state, trace, txt, tbl, images, prompt, out>>

\* table_extractor.py:137-191, one iteration: one request for the i-th selected
\* image; an exception leaves the loop through the handler at 196-199, which
\* returns [].
_extract_with_llm_page ==
    /\ pc = "_extract_with_llm_page"
    /\ i < Len(images)
    /\ \E r \in Outcomes(TableResponses) :
          /\ calls' = Append(calls, Call("_extract_with_llm", "invoke", images[i + 1],
                                        llm[1], <<>>, r.ok, Returned(r)))
          /\ IF r.ok
             THEN /\ result' = (IF HasTables(r.val)
                                THEN Append(result, LlmRecord(page_indices[i + 1] + 1, r.val))
                                ELSE result)
                  /\ i' = i + 1
                  /\ pc' = pc
                  /\ ret' = ret
             ELSE /\ result' = result
                  /\ i' = i
                  /\ pc' = "extract_tables_return"
                  /\ ret' = <<>>
    /\ UNCHANGED <<env, args, state, trace, txt, tbl, images, prompt, out>>

\* table_extractor.py:193-195, the loop is over and result is returned.
_extract_with_llm_return ==
    /\ pc = "_extract_with_llm_page"
    /\ i = Len(images)
    /\ ret' = result
    /\ pc' = "extract_tables_return"
    /\ UNCHANGED <<env, args, state, hist, locals, out>>

\* table_extractor.py:43, extract_tables returns to the program that called the tool.
extract_tables_return ==
    /\ pc = "extract_tables_return"
    /\ ~Pipeline
    /\ pc' = "done"
    /\ outcome' = "returned"
    /\ final' = ret
    /\ tables' = <<>>
    /\ page_indices' = <<>>
    /\ result' = <<>>
    /\ images' = <<>>
    /\ i' = 0
    /\ UNCHANGED <<env, args, state, hist, txt, prompt, ret>>

\* ---------------------------------------------------- ImageExtractorTool

\* What the model can answer to the description request.
DescriptionResponses == { <<"p", "i", "c">> }

\* image_extractor.py:61, f"page_{img_data['page']}_image_{i+1}.png"
Filename(page, idx) ==
    <<"p", "a", "g", "e", "_">> \o ToStr(page) \o <<"_", "i", "m", "a", "g", "e", "_">>
        \o ToStr(idx + 1) \o <<".", "p", "n", "g">>

\* Mutation: the page image is kept in the record after it has been saved.
ImageRecord_keeping_image(img_data, idx, description, save) ==
    [page |-> img_data.page,
     filename |-> IF save THEN Some(Filename(img_data.page, idx)) ELSE None,
     description |-> description,
     image |-> Some(img_data.image)]

\* Mutation: the record carries the loop index in place of the page number.
ImageRecord_with_index(img_data, idx, description, save) ==
    [page |-> idx,
     filename |-> IF save THEN Some(Filename(img_data.page, idx)) ELSE None,
     description |-> description,
     image |-> IF ~save THEN Some(img_data.image) ELSE None]

\* image_extractor.py:59-72, the record extract_images appends for one page image.
ImageRecord(img_data, idx, description, save) ==
    [page |-> img_data.page,
     filename |-> IF save THEN Some(Filename(img_data.page, idx)) ELSE None,
     description |-> description,
     image |-> IF ~save THEN Some(img_data.image) ELSE None]

\* What writing to the output directory can do: os.makedirs and Image.save
\* are called only with save_images and are outside every try block.
WriteOutcomes(save) == IF save THEN Outcomes({<<>>}) ELSE {Ok(<<>>)}

\* image_extractor.py:37-47, extract_images picks its client and, with
\* save_images, creates the output directory; an exception of os.makedirs
\* leaves extract_images.
extract_images_makedirs ==
    /\ pc = "extract_images"
    /\ llm' = LlmOrDefault(llm)
    /\ \E w \in WriteOutcomes(save_images) :
          /\ calls' = IF save_images
                       THEN Append(calls, Call("extract_images", "makedirs", 0, "", <<>>, w.ok, <<>>))
                       ELSE calls
          /\ pc' = IF w.ok THEN "_extract_images_from_pdf" ELSE "done"
          /\ outcome' = IF w.ok THEN outcome ELSE "raised"
    /\ UNCHANGED <<env, fallback_to_llm_ocr, pages, save_images, state, trace, locals, ret,
                   final>>

\* image_extractor.py:50, 76-103: _extract_images_from_pdf rasterizes the
\* document and returns one entry per page, or [] on an exception.
_extract_images_from_pdf ==
    /\ pc = "_extract_images_from_pdf"
    /\ trace' = Append(trace, "_extract_images_from_pdf")
    /\ \E r \in ReadOutcomes({[k \in 1..doc.npages |-> k]}) :
          /\ calls' = Append(calls, Call("_extract_images_from_pdf", "convert_from_path", 0,
                                        "", <<>>, r.ok, <<>>))
          /\ images' = IF r.ok
                       THEN [k \in 1..Len(r.val) |-> [page |-> k, image |-> r.val[k]]]
                       ELSE <<>>
    /\ result' = <<>>
    /\ i' = 0
    /\ pc' = "extract_images_page"
    /\ UNCHANGED <<env, args, state, txt, tbl, prompt, ret, out>>

\* Mutation: a page whose description request raised gives no record.
extract_images_page_skipping ==
    /\ pc = "extract_images_page"
    /\ i < Len(images)
    /\ \E r \in Outcomes(DescriptionResponses), w \in WriteOutcomes(save_images) :
          /\ calls' = Append(calls, Call("_generate_description", "invoke",
                                        images[i + 1].image, llm[1], <<>>, r.ok, Returned(r)))
                       \o (IF save_images
                           THEN <<Call("extract_images", "save", images[i + 1].image, "",
                                       Filename(images[i + 1].page, i), w.ok, <<>>)>>
                           ELSE <<>>)
          /\ IF w.ok
             THEN /\ result' = (IF r.ok
                                THEN Append(result, ImageRecord(images[i + 1], i, r.val, save_images))
                                ELSE result)
                  /\ i' = i + 1
                  /\ pc' = pc
                  /\ outcome' = outcome
             ELSE /\ result' = result
                  /\ i' = i
                  /\ pc' = "done"
                  /\ outcome' = "raised"
    /\ UNCHANGED <<env, args, state, trace, txt, tbl, images, prompt, ret, final>>

\* image_extractor.py:54-72, 105-154, one iteration: _generate_description
\* sends the page image to the model and answers a fixed text when that
\* raises; with save_images the page image is then written to disk, and an
\* exception of Image.save leaves extract_images.
extract_images_page ==
    /\ pc = "extract_images_page"
    /\ i < Len(images)
    /\ \E r \in Outcomes(DescriptionResponses), w \in WriteOutcomes(save_images) :
          /\ calls' = Append(calls, Call("_generate_description", "invoke",
                                        images[i + 1].image, llm[1], <<>>, r.ok, Returned(r)))
                       \o (IF save_images
                           THEN <<Call("extract_images", "save", images[i + 1].image, "",
                                       Filename(images[i + 1].page, i), w.ok, <<>>)>>
                           ELSE <<>>)
          /\ IF w.ok
             THEN /\ result' = Append(result,
                                      ImageRecord(images[i + 1], i,
                                                  IF r.ok THEN r.val ELSE DescriptionUnavailable,
                                                  save_images))
                  /\ i' = i + 1
                  /\ pc' = pc
                  /\ outcome' = outcome
             ELSE /\ result' = result
                  /\ i' = i
                  /\ pc' = "done"
                  /\ outcome' = "raised"
    /\ UNCHANGED <<env, args, state, trace, txt, tbl, images, prompt, ret, final>>

\* image_extractor.py:74, the loop is over and result is returned.
extract_images_loop_end ==
    /\ pc = "extract_images_page"
    /\ i = Len(images)
    /\ ret' = result
    /\ pc' = "extract_images_return"
    /\ UNCHANGED <<env, args, state, hist, locals, out>>

\* image_extractor.py:74, extract_images returns to the program that called the tool.
extract_images_return ==
    /\ pc = "extract_images_return"
    /\ ~Pipeline
    /\ pc' = "done"
    /\ outcome' = "returned"
    /\ final' = ret
    /\ result' = <<>>
    /\ images' = <<>>
    /\ i' = 0
    /\ UNCHANGED <<env, args, state, hist, txt, tbl, prompt, ret>>

\* ---------------------------------------------------- PDFExtractionAgent

PromptHead ==
    <<"I", " ", "h", "a", "v", "e", " ", "e", "x", "t", "r", "a", "c", "t", "e", "d", " ",
      "t", "h", "e", " ", "f", "o", "l", "l", "o", "w", "i", "n", "g", " ", "e", "l", "e",
      "m", "e", "n", "t", "s", " ", "f", "r", "o", "m", " ", "a", " ", "P", "D", "F", ":",
      "\n", "\n", "T", "E", "X", "T", ":", "\n">>
PromptTables ==
    <<"\n", "\n", "T", "A", "B", "L", "E", "S", ":", "\n">>
PromptImages ==
    <<"\n", "\n", "I", "M", "A", "G", "E", "S", ":", "\n">>
PromptTail ==
    <<"\n", "\n", "P", "l", "e", "a", "s", "e", " ", "c", "o", "m", "b", "i", "n", "e",
      " ", "t", "h", "e", "s", "e", " ", "e", "l", "e", "m", "e", "n", "t", "s", " ", "i",
      "n", "t", "o", " ", "a", " ", "w", "e", "l", "l", "-", "s", "t", "r", "u", "c", "t",
      "u", "r", "e", "d", " ", "d", "o", "c", "u", "m", "e", "n", "t", ",", " ", "m", "a",
      "i", "n", "t", "a", "i", "n", "i", "n", "g", " ", "t", "h", "e", " ", "l", "o", "g",
      "i", "c", "a", "l", " ", "f", "l", "o", "w", ".", "\n", "P", "l", "a", "c", "e", " ",
      "t", "a", "b", "l", "e", "s", " ", "a", "n", "d", " ", "i", "m", "a", "g", "e", "s",
      " ", "n", "e", "a", "r", " ", "r", "e", "l", "a", "t", "e", "d", " ", "t", "e", "x",
      "t", ".", " ", "U", "s", "e", " ", "m", "a", "r", "k", "d", "o", "w", "n", " ", "f",
      "o", "r", "m", "a", "t", "t", "i", "n", "g", ".", "\n">>
NoTextExtracted ==
    <<"N", "o", " ", "t", "e", "x", "t", " ", "e", "x", "t", "r", "a", "c", "t", "e", "d">>
TablePrefix == <<"T", "a", "b", "l", "e", " ">>
ImagePrefix == <<"I", "m", "a", "g", "e", " ">>
ColonSpace == <<":", " ">>

\* agent.py:168-171, the entries of tables[k..] numbered from k.
RECURSIVE FormatTablesFrom(_, _)
FormatTablesFrom(tbls, k) ==
    IF k > Len(tbls) THEN <<>>
    ELSE TablePrefix \o ToStr(k) \o ColonNL \o tbls[k].markdown \o NL2
             \o FormatTablesFrom(tbls, k + 1)

\* Mutation: an empty list of tables is rendered as nothing.
_format_tables_without_sentinel(tbls) == FormatTablesFrom(tbls, 1)

\* agent.py:163-171
_format_tables(tbls) ==
    IF tbls = <<>> THEN NoTablesExtracted ELSE FormatTablesFrom(tbls, 1)

\* agent.py:178-181, the entries of images[k..] numbered from k.
RECURSIVE FormatImagesFrom(_, _)
FormatImagesFrom(imgs, k) ==
    IF k > Len(imgs) THEN <<>>
    ELSE ImagePrefix \o ToStr(k) \o ColonSpace \o imgs[k].description \o NL2
             \o FormatImagesFrom(imgs, k + 1)

\* agent.py:173-181
_format_images(imgs) ==
    IF imgs = <<>> THEN NoImagesExtracted ELSE FormatImagesFrom(imgs, 1)

\* dict.get(key, default)
Get(d, key, default) == IF key \in DOMAIN d THEN d[key] ELSE default

\* agent.py:145-161
_create_combination_prompt(st) ==
    PromptHead \o Get(st, "text", NoTextExtracted)
        \o PromptTables \o _format_tables(Get(st, "tables", <<>>))
        \o PromptImages \o _format_images(Get(st, "images", <<>>))
        \o PromptTail

\* The workflow engine merges the dict a node returns into the state: the keys
\* the node returns take the returned values, the other keys keep theirs.
Merge(update, st) == update @@ st

\* Mutation: the workflow is entered at the table node.
EntryPoint_tables == "extract_tables"

\* agent.py:73, workflow.set_entry_point
EntryPoint == "extract_text"

\* Mutation: the table node is wired to the combine node.
Edge_skipping_images(node) ==
    CASE node = "extract_text" -> "extract_tables"
      [] node = "extract_tables" -> "combine_results"
      [] node = "extract_images" -> "combine_results"
      [] node = "combine_results" -> "END"

\* agent.py:66-70, the workflow's edges.
Edge(node) ==
    CASE node = "extract_text" -> "extract_tables"
      [] node = "extract_tables" -> "extract_images"
      [] node = "extract_images" -> "combine_results"
      [] node = "combine_results" -> "END"

\* agent.py:60-64, the function each node runs; the workflow returns to
\* aprocess at END.
NodeFunction(node) ==
    CASE node = "extract_text" -> "_extract_text"
      [] node = "extract_tables" -> "_extract_tables"
      [] node = "extract_images" -> "_extract_images"
      [] node = "combine_results" -> "_combine_results"
      [] node = "END" -> "aprocess_return"

\* agent.py:183-198, 204-237: process drives aprocess, which starts the
\* workflow at its entry point with {"pdf_path": pdf_path}.
process ==
    /\ pc = "process"
    /\ state' = ("pdf_path" :> PdfPath)
    /\ pc' = NodeFunction(EntryPoint)
    /\ UNCHANGED <<env, args, hist, locals, ret, out>>

\* agent.py:77-83, the node calls extract_text(pdf_path).
_extract_text ==
    /\ pc = "_extract_text"
    /\ trace' = Append(trace, "_extract_text")
    /\ llm' = None
    /\ fallback_to_llm_ocr' = TRUE
    /\ pc' = "extract_text"
    /\ UNCHANGED <<env, pages, save_images, state, calls, locals, ret, out>>

\* agent.py:83-86, extract_text has returned and the node returns
\* {"pdf_path": pdf_path, "text": text}.
_extract_text_return ==
    /\ pc = "extract_text_return"
    /\ Pipeline
    /\ state' = Merge(("pdf_path" :> state["pdf_path"]) @@ ("text" :> ret), state)
    /\ pc' = NodeFunction(Edge("extract_text"))
    /\ ret' = <<>>
    /\ text' = <<>>
    /\ all_text' = <<>>
    /\ page_text' = <<>>
    /\ images' = <<>>
    /\ i' = 0
    /\ UNCHANGED <<env, args, hist, tbl, result, prompt, out>>

\* agent.py:91-97, the node calls extract_tables(pdf_path).
_extract_tables ==
    /\ pc = "_extract_tables"
    /\ trace' = Append(trace, "_extract_tables")
    /\ llm' = None
    /\ pages' = All
    /\ pc' = "extract_tables"
    /\ UNCHANGED <<env, fallback_to_llm_ocr, save_images, state, calls, locals, ret, out>>

\* agent.py:97-100, extract_tables has returned and the node returns
\* {**state, "tables": tables}.
_extract_tables_return ==
    /\ pc = "extract_tables_return"
    /\ Pipeline
    /\ state' = Merge(("tables" :> ret) @@ state, state)
    /\ pc' = NodeFunction(Edge("extract_tables"))
    /\ ret' = <<>>
    /\ tables' = <<>>
    /\ page_indices' = <<>>
    /\ result' = <<>>
    /\ images' = <<>>
    /\ i' = 0
    /\ UNCHANGED <<env, args, hist, txt, prompt, out>>

\* agent.py:105-111, the node calls extract_images(pdf_path, self.llm).
_extract_images ==
    /\ pc = "_extract_images"
    /\ trace' = Append(trace, "_extract_images")
    /\ llm' = Some(openai_model)
    /\ save_images' = FALSE
    /\ pc' = "extract_images"
    /\ UNCHANGED <<env, fallback_to_llm_ocr, pages, state, calls, locals, ret, out>>

\* agent.py:111-114, extract_images has returned and the node returns
\* {**state, "images": images}.
_extract_images_return ==
    /\ pc = "extract_images_return"
    /\ Pipeline
    /\ state' = Merge(("images" :> ret) @@ state, state)
    /\ pc' = NodeFunction(Edge("extract_images"))
    /\ ret' = <<>>
    /\ result' = <<>>
    /\ images' = <<>>
    /\ i' = 0
    /\ UNCHANGED <<env, args, hist, txt, tbl, prompt, out>>

\* Mutation: the node returns the new field alone, without **state.
CombinedState_only_final(st, content) == ("final_content" :> content)

\* Mutation: the node also stores the response in the text field.
CombinedState_overwriting_text(st, content) ==
    Merge(("final_content" :> content) @@ ("text" :> content) @@ st, st)

\* agent.py:140, the state the node returns for a response: {**state,
\* "final_content": response.content}.
CombinedState(st, content) == Merge(("final_content" :> content) @@ st, st)

\* Mutation: a failed merge request is logged and an empty document is kept.
_combine_results_swallowing ==
    /\ pc = "_combine_results"
    /\ trace' = Append(trace, "_combine_results")
    /\ prompt' = _create_combination_prompt(state)
    /\ \E r \in Outcomes(CombineResponses) :
          /\ calls' = Append(calls, Call("_combine_results", "ainvoke", 0, openai_model,
                                        <<>>, r.ok, Returned(r)))
          /\ IF r.ok
             THEN /\ state' = CombinedState(state, r.val)
                  /\ pc' = NodeFunction(Edge("combine_results"))
                  /\ outcome' = outcome
             ELSE /\ state' = CombinedState(state, <<>>)
                  /\ pc' = NodeFunction(Edge("combine_results"))
                  /\ outcome' = outcome
    /\ UNCHANGED <<env, args, txt, tbl, result, images, i, ret, final>>

\* Mutation: the combination request never returns and never raises.
_combine_results_awaiting ==
    /\ pc = "_combine_results"
    /\ trace' = Append(trace, "_combine_results")
    /\ prompt' = _create_combination_prompt(state)
    /\ pc' = "ainvoke"
    /\ UNCHANGED <<env, args, state, calls, txt, tbl, result, images, i, ret, out>>

\* agent.py:119-143, the node builds the prompt and sends it to self.llm; the
\* response becomes final_content, an exception is logged and raised again and
\* leaves aprocess and process (agent.py:199-202, 238-241).
_combine_results ==
    /\ pc = "_combine_results"
    /\ trace' = Append(trace, "_combine_results")
    /\ prompt' = _create_combination_prompt(state)
    /\ \E r \in Outcomes(CombineResponses) :
          /\ calls' = Append(calls, Call("_combine_results", "ainvoke", 0, openai_model,
                                        <<>>, r.ok, Returned(r)))
          /\ IF r.ok
             THEN /\ state' = CombinedState(state, r.val)
                  /\ pc' = NodeFunction(Edge("combine_results"))
                  /\ outcome' = outcome
             ELSE /\ state' = state
                  /\ pc' = "done"
                  /\ outcome' = "raised"
    /\ UNCHANGED <<env, args, txt, tbl, result, images, i, ret, final>>

\* agent.py:183, 198, 200, 233-237: the value aprocess returns and process
\* hands on, for the final state st: the str result["final_content"] and
\* nothing else (no dict, no statistics).
ProcessResult(st) == [type |-> "str", val |-> st["final_content"]]

\* agent.py:195-198, 233-237: the workflow has ended, aprocess returns
\* result["final_content"] and process returns it to the caller.
aprocess_return ==
    /\ pc = "aprocess_return"
    /\ final' = ProcessResult(state).val
    /\ outcome' = "returned"
    /\ prompt' = <<>>
    /\ pc' = "done"
    /\ UNCHANGED <<env, args, state, hist, txt, tbl, result, images, i, ret>>

\* ------------------------------------------------------ the extract command

\* cli.py:29-31, the flags of the extract command that select the stages.
Flags == {"--no-tables", "--no-images", "--no-llm-ocr"}

\* cli.py:53-60, the config extract builds from the flags a; --model,
\* --save-images and --image-dir are left at their defaults.
PDFExtractionConfig(a) ==
    [openai_model |-> DefaultModel,
     use_llm_ocr |-> "--no-llm-ocr" \notin a,
     extract_tables |-> "--no-tables" \notin a,
     extract_images |-> "--no-images" \notin a,
     save_images |-> FALSE,
     output_dir |-> None]

\* cli.py:52-75: extract builds the config, constructs the agent from the
\* config's API key and model only, and calls agent.process(pdf_path); a
\* ValueError of the constructor makes the command return 1.
extract ==
    /\ pc = "extract"
    /\ config' = Some(PDFExtractionConfig(argv))
    /\ \E r \in Outcomes({"agent"}) :
          IF r.ok
          THEN /\ openai_model' = PDFExtractionConfig(argv).openai_model
               /\ pc' = "process"
               /\ exit_code' = exit_code
          ELSE /\ exit_code' = Some(1)
               /\ pc' = "exit"
               /\ openai_model' = openai_model
    /\ UNCHANGED <<entry, argv, doc, args, state, hist, locals, ret, out>>

\* cli.py:75-88: process has returned or raised; extract echoes the result and
\* returns 0, or reports the error and returns 1.
extract_return ==
    /\ entry = "extract"
    /\ pc = "done"
    /\ exit_code' = Some(IF outcome = "returned" THEN 0 ELSE 1)
    /\ pc' = "exit"
    /\ UNCHANGED <<entry, argv, config, doc, openai_model, args, state, hist,
                   locals, ret, out>>


Next ==
    \/ _extract_with_pypdf_open
    \/ _extract_with_pypdf_page
    \/ _extract_with_pypdf_return
    \/ extract_text_if
    \/ _extract_with_llm_ocr_convert
    \/ _extract_with_llm_ocr_page
    \/ _extract_with_llm_ocr_return
    \/ extract_text_return
    \/ _extract_with_camelot
    \/ extract_tables_if
    \/ _extract_with_llm_convert
    \/ _extract_with_llm_page
    \/ _extract_with_llm_return
    \/ extract_tables_return
    \/ extract_images_makedirs
    \/ _extract_images_from_pdf
    \/ extract_images_page
    \/ extract_images_loop_end
    \/ extract_images_return
    \/ process
    \/ _extract_text
    \/ _extract_text_return
    \/ _extract_tables
    \/ _extract_tables_return
    \/ _extract_images
    \/ _extract_images_return
    \/ _combine_results
    \/ aprocess_return

Spec == Init /\ [][Next]_vars

\* A run of the extract command, with any of its flags.
CliInit ==
    /\ entry = "extract"
    /\ argv \in SUBSET Flags
    /\ config = None
    /\ exit_code = None
    /\ doc \in Docs
    /\ openai_model = DefaultModel
    /\ llm = None
    /\ fallback_to_llm_ocr = TRUE
    /\ pages = All
    /\ save_images = FALSE
    /\ pc = entry
    /\ state = <<>>
    /\ trace = <<>>
    /\ calls = <<>>
    /\ text = <<>>
    /\ page_text = <<>>
    /\ all_text = <<>>
    /\ tables = <<>>
    /\ page_indices = <<>>
    /\ result = <<>>
    /\ prompt = <<>>
    /\ images = <<>>
    /\ i = 0
    /\ ret = <<>>
    /\ outcome = "running"
    /\ final = <<>>

CliNext ==
    \/ extract
    \/ process
    \/ _extract_text
    \/ _extract_with_pypdf_open
    \/ _extract_with_pypdf_page
    \/ _extract_with_pypdf_return
    \/ extract_text_if
    \/ _extract_with_llm_ocr_convert
    \/ _extract_with_llm_ocr_page
    \/ _extract_with_llm_ocr_return
    \/ _extract_text_return
    \/ _extract_tables
    \/ _extract_with_camelot
    \/ extract_tables_if
    \/ _extract_with_llm_convert
    \/ _extract_with_llm_page
    \/ _extract_with_llm_return
    \/ _extract_tables_return
    \/ _extract_images
    \/ extract_images_makedirs
    \/ _extract_images_from_pdf
    \/ extract_images_page
    \/ extract_images_loop_end
    \/ _extract_images_return
    \/ _combine_results
    \/ aprocess_return
    \/ extract_return

CliSpec == CliInit /\ [][CliNext]_vars


\* The run is one thread of control and every external call is a step that
\* returns or raises: a run that can take a step takes one.
FairSpec == Spec /\ WF_vars(Next)


\* ------------------------------------------------------------ properties

\* f has been entered during this run.
InTrace(f) == \E k \in 1..Len(trace) : trace[k] = f

\* The workflow's node functions, in the order of the specified pipeline.
NodeOrder == <<"_extract_text", "_extract_tables", "_extract_images", "_combine_results">>
IsNode(f) == \E k \in 1..Len(NodeOrder) : NodeOrder[k] = f
Nodes == SelectSeq(trace, IsNode)

\* An external call of one of the three extraction stages raised.
ExtractionCallFailed ==
    \E k \in 1..Len(calls) : ~calls[k].ok /\ calls[k].by # "_combine_results"

\* The merge request raised.
CombineFailed ==
    \E k \in 1..Len(calls) : ~calls[k].ok /\ calls[k].by = "_combine_results"

\* The deterministic table detector raised.
CamelotFailed ==
    \E k \in 1..Len(calls) : ~calls[k].ok /\ calls[k].by = "_extract_with_camelot"

Has(key) == key \in DOMAIN state

\* C1: in a pipeline run, whenever the native text layer gives fewer than 100
\* whitespace-delimited tokens (none included), extract_text has invoked the
\* LLM OCR by the time it returns, within the ExtractText stage.
C1_FewTokensInvokeOcr ==
    (entry = "process" /\ pc = "extract_text_return" /\ SplitCount(text) < 100)
        => (InTrace("_extract_with_llm_ocr") /\ Nodes = <<"_extract_text">>)

C1_Witness ==
    /\ entry = "process"
    /\ pc = "extract_text_return"
    /\ SplitCount(text) = 99
    /\ InTrace("_extract_with_llm_ocr")

\* C2: in a pipeline run, when the native text is non-empty and has at least
\* 100 tokens, the LLM OCR has not been invoked and the node writes exactly the
\* native text to the state.
C2_EnoughTokensKeepNativeText ==
    [][(entry = "process" /\ pc = "extract_text_return" /\ text # <<>>
            /\ SplitCount(text) >= 100)
         => (/\ ~InTrace("_extract_with_llm_ocr")
             /\ "text" \in DOMAIN state'
             /\ state'["text"] = text)]_vars

C2_Witness ==
    /\ entry = "process"
    /\ Has("text")
    /\ SplitCount(state["text"]) = 100
    /\ ~InTrace("_extract_with_llm_ocr")

\* C3: extract_text called with fallback_to_llm_ocr=False never invokes the
\* LLM OCR, whatever the native extraction gave, and returns the native text.
C3_DisabledFallbackNeverInvokesOcr ==
    (entry = "extract_text" /\ ~fallback_to_llm_ocr)
        => /\ ~InTrace("_extract_with_llm_ocr")
           /\ (pc = "extract_text_return" => ret = text)

\* C4: table extraction runs the deterministic detector first, and the LLM
\* table method is invoked exactly when the detector yielded no table, a
\* detector that raised counting as yielding none.
C4_LlmTablesIffCamelotEmpty ==
    /\ \A k \in 1..Len(trace) :
          trace[k] = "_extract_with_llm" => (k > 1 /\ trace[k - 1] = "_extract_with_camelot")
    /\ pc = "extract_tables_return"
          => /\ InTrace("_extract_with_camelot")
             /\ InTrace("_extract_with_llm") <=> tables = <<>>
             /\ CamelotFailed => InTrace("_extract_with_llm")

C4_Witness ==
    /\ pc = "extract_tables_return"
    /\ CamelotFailed
    /\ InTrace("_extract_with_llm")

\* C5: the nodes run in the order ExtractText, ExtractTables, ExtractImages,
\* Combine, each at most once, and a node starts only after the node before it
\* has written its field to the state.
C5_StagesInOrder ==
    /\ Len(Nodes) <= Len(NodeOrder)
    /\ Nodes = SubSeq(NodeOrder, 1, Len(Nodes))
    /\ Len(Nodes) >= 2 => Has("text")
    /\ Len(Nodes) >= 3 => Has("tables")
    /\ Len(Nodes) >= 4 => Has("images")

C5_Witness ==
    /\ Nodes = NodeOrder
    /\ outcome = "returned"

\* C6: final_content is written by the Combine node only, and whenever it is
\* present text, tables and images are present too.
C6_FinalContentOnlyFromCombine ==
    /\ [](Has("final_content")
            => (Has("text") /\ Has("tables") /\ Has("images") /\ InTrace("_combine_results")))
    /\ [][("final_content" \in DOMAIN state'
             /\ (~Has("final_content") \/ state'["final_content"] # state["final_content"]))
          => pc = "_combine_results"]_vars

C6_Witness ==
    /\ Has("final_content")
    /\ Has("images")
    /\ pc = "aprocess_return"

\* C7: when the document cannot be opened, the run aborts at once: no later
\* stage runs, no merge request is issued and nothing is returned.
C7_UnreadableDocumentAborts ==
    (entry = "process" /\ ~doc.readable)
        => /\ ~InTrace("_extract_tables")
           /\ ~InTrace("_combine_results")
           /\ outcome # "returned"
           /\ pc = "done" => outcome = "raised"

\* C8 as claimed: after a failed external call in one of the three extraction
\* stages the run never reaches Combine and process raises.
C8_ExtractionFailureIsFatal ==
    (entry = "process" /\ ExtractionCallFailed)
        => /\ ~InTrace("_combine_results")
           /\ outcome # "returned"
           /\ pc = "done" => outcome = "raised"

\* C8 as amended: a failed external call in one of the three extraction stages
\* is absorbed by the tool; the run still writes text, tables and images and
\* reaches Combine, and process raises only when the merge request itself raised.
C8_ExtractionFailureIsAbsorbed ==
    (entry = "process" /\ ExtractionCallFailed)
        => /\ outcome = "raised" => CombineFailed
           /\ pc = "done"
                => (InTrace("_combine_results") /\ Has("text") /\ Has("tables") /\ Has("images"))

C8_Witness ==
    /\ entry = "process"
    /\ ExtractionCallFailed
    /\ pc = "done"
    /\ outcome = "returned"

\* C9: when the merge request raises, the run is fatal: process raises,
\* final_content is never set and nothing is returned to the caller.
C9_CombineFailureIsFatal ==
    CombineFailed
        => /\ outcome = "raised"
           /\ pc = "done"
           /\ ~Has("final_content")
           /\ final = <<>>

C9_Witness ==
    /\ CombineFailed
    /\ outcome = "raised"

\* A selector token that is a 1-based page number or a range start-end.
IsPageNumber(tok) ==
    /\ tok # <<>>
    /\ \A k \in 1..Len(tok) : IsDigit(tok[k])
    /\ DigitsValue(tok) >= 1
IsPageRange(tok) ==
    \E k \in 1..Len(tok) :
        /\ tok[k] = "-"
        /\ IsPageNumber(SubSeq(tok, 1, k - 1))
        /\ IsPageNumber(SubSeq(tok, k + 1, Len(tok)))
Malformed(sel) ==
    /\ sel # All
    /\ \E k \in 1..Len(Split(sel, ",")) :
          ~IsPageNumber(Split(sel, ",")[k]) /\ ~IsPageRange(Split(sel, ",")[k])

\* C10: a malformed page selector makes extract_tables fail with an error
\* before any detection, rasterization or model call; it never ends as a
\* returned (empty) table list.
C10_MalformedSelectorFails ==
    (entry = "extract_tables" /\ Malformed(pages) /\ pc = "done")
        => (outcome = "raised" /\ calls = <<>>)

\* The pages a selector denotes: every page of the rasterized sequence for
\* "all", otherwise the union of its single pages N and its ranges N-M.
TokenPages(tok) ==
    IF IsPageNumber(tok) THEN {DigitsValue(tok)}
    ELSE LET k == CHOOSE j \in 1..Len(tok) : tok[j] = "-"
         IN  DigitsValue(SubSeq(tok, 1, k - 1))..DigitsValue(SubSeq(tok, k + 1, Len(tok)))
Denotes(sel, n) ==
    IF sel = All THEN 1..n
    ELSE UNION {TokenPages(Split(sel, ",")[k]) : k \in 1..Len(Split(sel, ","))}

\* The pages sent to the model by the LLM table method, in the order sent.
TablePagesSent ==
    SelectSeq(calls, LAMBDA c : c.by = "_extract_with_llm" /\ c.fn = "invoke")
Example_1_3_5to7 == <<"1", ",", "3", ",", "5", "-", "7">>

\* C11: in the LLM table method a well-formed selector resolves to the pages
\* it denotes ("1,3,5-7" to {1,3,5,6,7}, "all" to every rasterized page), and
\* when the page loop has run to its end the pages sent to the model are
\* exactly the denoted pages that exist in the document.
C11_SelectorResolvesToDenotedPages ==
    (pc = "_extract_with_llm_page" /\ ~Malformed(pages))
        => /\ {page_indices[k] + 1 : k \in 1..Len(page_indices)} = Denotes(pages, doc.npages)
           /\ pages = Example_1_3_5to7
                => {page_indices[k] + 1 : k \in 1..Len(page_indices)} = {1, 3, 5, 6, 7}
           /\ {images[k] : k \in 1..Len(images)} = Denotes(pages, doc.npages) \cap 1..doc.npages
           /\ i = Len(images)
                => {TablePagesSent[k].page : k \in 1..Len(TablePagesSent)}
                      = Denotes(pages, doc.npages) \cap 1..doc.npages

C11_Witness ==
    /\ pc = "_extract_with_llm_page"
    /\ pages = Example_1_3_5to7
    /\ i = Len(images)
    /\ i >= 1

\* The entry the prompt is to hold for the k-th table and the k-th image.
TableEntry(k, t) == <<"T", "a", "b", "l", "e", " ">> \o ToStr(k) \o <<":", "\n">> \o t.markdown \o <<"\n", "\n">>
ImageEntry(k, im) == <<"I", "m", "a", "g", "e", " ">> \o ToStr(k) \o <<":", " ">> \o im.description \o <<"\n", "\n">>
SentinelTables == <<"N", "o", " ", "t", "a", "b", "l", "e", "s", " ", "e", "x", "t", "r", "a", "c", "t", "e", "d">>
SentinelImages == <<"N", "o", " ", "i", "m", "a", "g", "e", "s", " ", "e", "x", "t", "r", "a", "c", "t", "e", "d">>

\* The tables and images part of the prompt: what follows the text and
\* precedes the closing instruction.
Renderings ==
    SubSeq(prompt, Len(PromptHead) + Len(state["text"]) + 1, Len(prompt) - Len(PromptTail))

\* The entries of the tables tbls[1..k] and of the images imgs[1..k], one
\* after the other.
RECURSIVE TableEntries(_, _)
TableEntries(tbls, k) ==
    IF k = 0 THEN <<>> ELSE TableEntries(tbls, k - 1) \o TableEntry(k, tbls[k])
RECURSIVE ImageEntries(_, _)
ImageEntries(imgs, k) ==
    IF k = 0 THEN <<>> ELSE ImageEntries(imgs, k - 1) \o ImageEntry(k, imgs[k])

C12_WitnessTables ==
    /\ entry = "process"
    /\ pc = "aprocess_return"
    /\ Len(state["tables"]) = 2
    /\ state["images"] = <<>>

\* The scenario of C13, stage by stage. The text stage: a 1-page document
\* whose native text is "Hello world" has been read by _extract_with_pypdf.
HelloWorld == <<"H", "e", "l", "l", "o", " ", "w", "o", "r", "l", "d">>
NoCallFailed == \A k \in 1..Len(calls) : calls[k].ok
HelloWorldRead ==
    /\ entry = "process"
    /\ doc.npages = 1
    /\ pc = "extract_text_return"
    /\ text = HelloWorld \o <<"\n", "\n">>
\* The table stage: camelot detected nothing and the model answered
\* "No tables found" for the page.
NoTablesAnswered ==
    \E k \in 1..Len(calls) :
        /\ calls[k].by = "_extract_with_llm"
        /\ calls[k].fn = "invoke"
        /\ calls[k].val = <<"N", "o", " ", "t", "a", "b", "l", "e", "s", " ", "f", "o", "u", "n", "d">>
\* The run has reached the end of Combine: 1 page, text escalated, the table
\* answer as above, no call failed.
ScenarioCombined ==
    /\ entry = "process"
    /\ doc.npages = 1
    /\ pc = "aprocess_return"
    /\ InTrace("_extract_with_llm_ocr")
    /\ NoTablesAnswered
    /\ NoCallFailed

\* C13 as claimed: in the scenario the text stage escalates, the table stage
\* yields no record, and the Combine node receives empty tables and images, so
\* that its prompt holds both sentinels.
C13_ScenarioBothSentinels ==
    /\ HelloWorldRead => InTrace("_extract_with_llm_ocr")
    /\ (doc.npages = 1 /\ pc = "extract_tables_return" /\ NoTablesAnswered /\ NoCallFailed)
          => ret = <<>>
    /\ ScenarioCombined
          => /\ state["tables"] = <<>>
             /\ state["images"] = <<>>
             /\ Contains(prompt, SentinelTables)
             /\ Contains(prompt, SentinelImages)

\* C13 as amended: in the scenario the text stage escalates and the table
\* stage yields no record, but the image stage yields one record for the
\* page: the prompt holds "No tables extracted" and the entry "Image 1: ...",
\* and does not hold "No images extracted".
C13_ScenarioOneImage ==
    /\ HelloWorldRead => InTrace("_extract_with_llm_ocr")
    /\ (doc.npages = 1 /\ pc = "extract_tables_return" /\ NoTablesAnswered /\ NoCallFailed)
          => ret = <<>>
    /\ ScenarioCombined
          => /\ state["tables"] = <<>>
             /\ Len(state["images"]) = 1
             /\ state["images"][1].page = 1
             /\ Contains(prompt, SentinelTables)
             /\ Contains(prompt, ImageEntry(1, state["images"][1]))
             /\ ~Contains(prompt, SentinelImages)

C13_Witness ==
    /\ ScenarioCombined
    /\ Len(state["images"]) = 1
    /\ state["tables"] = <<>>

C13_WitnessText ==
    /\ HelloWorldRead
    /\ InTrace("_extract_with_llm_ocr")

ImageRecordsNow ==
    IF pc = "extract_images_page" THEN result
    ELSE IF pc = "extract_images_return" THEN ret
    ELSE IF entry = "extract_images" /\ outcome = "returned" THEN final
    ELSE IF Has("images") THEN state["images"]
    ELSE <<>>

StoredName(page, index) ==
    <<"p", "a", "g", "e", "_">> \o ToStr(page) \o <<"_", "i", "m", "a", "g", "e", "_">>
        \o ToStr(index) \o <<".", "p", "n", "g">>

\* C15: every image record holds exactly one of the page image and a file
\* name: with save_images the name page_{page}_image_{index}.png and no
\* image, without it the image and no name.
C15_ImageXorFilename ==
    \A k \in 1..Len(ImageRecordsNow) :
        LET rec == ImageRecordsNow[k]
        IN  /\ (rec.image = <<>>) # (rec.filename = <<>>)
            /\ save_images
                 => (rec.filename = <<StoredName(rec.page, k)>> /\ rec.image = <<>>)
            /\ ~save_images
                 => (rec.image = <<rec.page>> /\ rec.filename = <<>>)

C15_Witness ==
    /\ entry = "extract_images"
    /\ save_images
    /\ outcome = "returned"
    /\ Len(final) = 2

\* The image tool rasterized the document.
ImagesRasterized ==
    \E k \in 1..Len(calls) :
        /\ calls[k].by = "_extract_images_from_pdf"
        /\ calls[k].fn = "convert_from_path"
        /\ calls[k].ok

\* C16: when the document was rasterized, extract_images returns one record
\* per page of the document, in ascending page order, record k carrying page
\* number k, whether or not a description request failed.
C16_OneImageRecordPerPage ==
    (pc = "extract_images_return" /\ ImagesRasterized)
        => /\ Len(ret) = doc.npages
           /\ \A k \in 1..Len(ret) : ret[k].page = k

C16_Witness ==
    /\ pc = "extract_images_return"
    /\ ImagesRasterized
    /\ Len(ret) = 2
    /\ \E k \in 1..Len(calls) : calls[k].by = "_generate_description" /\ ~calls[k].ok

\* The transcription requests issued so far, in the order issued.
OcrRequests ==
    SelectSeq(calls, LAMBDA c : c.by = "_extract_with_llm_ocr" /\ c.fn = "invoke")
OcrRasterized ==
    \E k \in 1..Len(calls) :
        calls[k].by = "_extract_with_llm_ocr" /\ calls[k].fn = "convert_from_path" /\ calls[k].ok
OcrRequestFailed == \E k \in 1..Len(OcrRequests) : ~OcrRequests[k].ok

\* The transcript the answered requests make up: one block per request.
RECURSIVE Transcript(_)
Transcript(reqs) ==
    IF reqs = <<>> THEN <<>>
    ELSE Transcript(SubSeq(reqs, 1, Len(reqs) - 1))
            \o <<"P", "a", "g", "e", " ">> \o ToStr(reqs[Len(reqs)].page) \o <<":", "\n">>
            \o reqs[Len(reqs)].val \o <<"\n", "\n">>

\* C17: when the LLM OCR ran without a failing call, one request was issued
\* per rasterized page, in page order, and extract_text returns the blocks
\* "Page {n}:\n{text}\n\n" of the pages in page order, text being the model's
\* answer for page n.
C17_OneRequestPerPageConcatenated ==
    (pc = "extract_text_return" /\ OcrRasterized /\ ~OcrRequestFailed)
        => /\ Len(OcrRequests) = doc.npages
           /\ \A k \in 1..Len(OcrRequests) : OcrRequests[k].page = k
           /\ ret = Transcript(OcrRequests)

C17_Witness ==
    /\ pc = "extract_text_return"
    /\ OcrRasterized
    /\ ~OcrRequestFailed
    /\ Len(OcrRequests) = 2
    /\ OcrRequests[1].val # OcrRequests[2].val

\* C18: when a transcription request raises, extract_text returns "": the
\* failed request is the last one issued, the text of the pages before it is
\* dropped, and nothing is raised to the caller.
C18_FailedRequestGivesEmptyText ==
    OcrRequestFailed
        => /\ ~OcrRequests[Len(OcrRequests)].ok
           /\ \A k \in 1..(Len(OcrRequests) - 1) : OcrRequests[k].ok
           /\ \A k \in 1..Len(OcrRequests) : OcrRequests[k].page = k
           /\ pc = "extract_text_return" => ret = <<>>
           /\ (entry = "extract_text" /\ pc = "done")
                 => (outcome = "returned" /\ final = <<>>)
           /\ (entry = "process" /\ Has("text")) => state["text"] = <<>>
           /\ entry = "extract_text" => outcome # "raised"

C18_Witness ==
    /\ OcrRequestFailed
    /\ entry = "extract_text"
    /\ pc = "done"
    /\ Len(OcrRequests) = 2
    /\ OcrRequests[1].val # <<>>

C18_WitnessRemainingPages ==
    /\ OcrRequestFailed
    /\ pc = "extract_text_return"
    /\ Len(OcrRequests) = 1
    /\ doc.npages = 2

\* C19: of the records extract_tables returns, those made by camelot carry
\* row data and those made by the LLM method carry None; every record of
\* either kind has a markdown text and a page number.
C19_RowDataIffCamelot ==
    pc = "extract_tables_return"
        => /\ \A k \in 1..Len(ret) :
                 /\ DOMAIN ret[k] = {"page", "markdown", "data"}
                 /\ ret[k].page \in Int
                 /\ (ret[k].data # <<>>) <=> (tables # <<>>)
           /\ tables # <<>> => (ret = tables /\ ~InTrace("_extract_with_llm"))
           /\ tables = <<>> => InTrace("_extract_with_llm")

C19_Witness ==
    /\ pc = "extract_tables_return"
    /\ tables = <<>>
    /\ Len(ret) = 2
    /\ ret[1].data = <<>>

C19_WitnessCamelot ==
    /\ pc = "extract_tables_return"
    /\ Len(tables) = 2
    /\ ret[1].data # <<>>

SentinelNoTables == <<"N", "o", " ", "t", "a", "b", "l", "e", "s", " ", "f", "o", "u", "n", "d">>

\* The page loop of the LLM table method has run to its end.
TableLoopDone == pc = "_extract_with_llm_page" /\ i = Len(images)

\* One request per selected page, in the order of the selected pages.
OneRequestPerSelectedPage ==
    /\ Len(TablePagesSent) = Len(images)
    /\ \A k \in 1..Len(images) : TablePagesSent[k].page = images[k] /\ TablePagesSent[k].ok

\* C20 as claimed: one request per selected page; a page answered with the
\* sentinel gives no record and every other page gives one record, whose
\* markdown is the answer, in the order the pages were processed.
C20_RecordUnlessAnswerIsSentinel ==
    TableLoopDone
        => /\ OneRequestPerSelectedPage
           /\ LET kept == SelectSeq(TablePagesSent, LAMBDA c : c.val # SentinelNoTables)
              IN  /\ Len(result) = Len(kept)
                  /\ \A k \in 1..Len(kept) : result[k].markdown = kept[k].val

\* C20 as amended: one request per selected page; a page whose answer
\* contains the sentinel text gives no record and every other page gives one
\* record, whose markdown is the answer, in the order the pages were processed.
C20_RecordUnlessAnswerContainsSentinel ==
    TableLoopDone
        => /\ OneRequestPerSelectedPage
           /\ LET kept == SelectSeq(TablePagesSent,
                                    LAMBDA c : ~Contains(c.val, SentinelNoTables))
              IN  /\ Len(result) = Len(kept)
                  /\ \A k \in 1..Len(kept) :
                        result[k].markdown = kept[k].val /\ result[k].data = <<>>

C20_Witness ==
    /\ TableLoopDone
    /\ Len(images) = 2
    /\ Len(result) = 1
    /\ TablePagesSent[1].val = SentinelNoTables \o <<".">>

\* ----------------------------------------------------------- C21 .. C30

\* The functions of the table extractor and of the image extractor, and the
\* external calls (models included) they issue.
TableFunctions == {"_extract_tables", "_extract_with_camelot", "_extract_with_llm"}
ImageFunctions == {"_extract_images", "_extract_images_from_pdf", "_generate_description",
                   "extract_images"}
Invoked(F) ==
    \/ \E k \in 1..Len(trace) : trace[k] \in F
    \/ \E k \in 1..Len(calls) : calls[k].by \in F

\* C21: a run of extract with --no-tables never invokes the table extractor or
\* any of its calls, and a run with --no-images never invokes the image
\* extractor or any of its calls.
C21_NoTablesNoImagesSkipStage ==
    /\ (entry = "extract" /\ "--no-tables" \in argv) => ~Invoked(TableFunctions)
    /\ (entry = "extract" /\ "--no-images" \in argv) => ~Invoked(ImageFunctions)

\* C22: a run of extract with --no-llm-ocr never invokes the vision text
\* extractor, whatever the deterministic text extraction yields.
C22_NoLlmOcrNeverInvokesOcr ==
    (entry = "extract" /\ "--no-llm-ocr" \in argv) => ~Invoked({"_extract_with_llm_ocr"})

\* C23: a successful process() run returns the final content together with a
\* statistics record whose table count is the number of TableRecords in the
\* state, whose image count is the number of ImageRecords and whose content
\* length is the length of the final content.
C23_ReturnsContentAndStatistics ==
    (entry = "process" /\ outcome = "returned") =>
        /\ ProcessResult(state).type = "dict"
        /\ ProcessResult(state).val["content"] = state["final_content"]
        /\ ProcessResult(state).val["stats"]["table_count"] = Len(state["tables"])
        /\ ProcessResult(state).val["stats"]["image_count"] = Len(state["images"])
        /\ ProcessResult(state).val["stats"]["content_length"] = Len(state["final_content"])

\* C24: deterministic text extraction starts from the empty string and, page
\* by page in page order, appends the page's text followed by a blank line
\* when the page yields text and nothing when it yields none (which is not an
\* error: the loop goes on); what the loop has built is what it returns, so a
\* document none of whose pages yields text gives the empty string.
C24_PageTextsJoinedInPageOrder ==
    /\ []((pc = "_extract_with_pypdf_page" /\ i = 0) => text = <<>>)
    /\ [][(pc = "_extract_with_pypdf_page" /\ i' = i + 1) =>
            /\ text' = (IF page_text' = <<>> THEN text ELSE text \o page_text' \o NL2)
            /\ pc' = "_extract_with_pypdf_page"
            /\ outcome' = "running"]_vars
    /\ [][(pc = "_extract_with_pypdf_page" /\ i = doc.npages /\ pc' # pc) =>
            (pc' = "extract_text_if" /\ text' = text)]_vars

\* The first page yielded text and the second none: the text is the first
\* page's text and one blank line.
C24_Witness ==
    /\ pc = "_extract_with_pypdf_page"
    /\ i = 2
    /\ page_text = <<>>
    /\ text = HelloWorld \o NL2

\* A request to a model.
ModelRequest(c) == c.fn \in {"invoke", "ainvoke"}
ModelRequests == SelectSeq(calls, ModelRequest)

\* C25: in a pipeline run no model request repeats an earlier one: each page
\* gets at most one request from each extraction stage and the combination is
\* requested at most once, so a run on P pages issues at most 3 * P + 1 model
\* requests, whether the calls return or raise.
C25_NoRequestRetried ==
    entry = "process" =>
        /\ \A n \in 1..Len(calls) : \A k \in 1..(n - 1) :
              (ModelRequest(calls[n]) /\ calls[k].fn = calls[n].fn /\ calls[k].by = calls[n].by)
                  => calls[k].page # calls[n].page
        /\ Len(ModelRequests) <= 3 * doc.npages + 1

\* A run on two pages whose every stage asked the model for every page, one
\* request having failed: 3 * 2 + 1 requests.
C25_Witness ==
    /\ entry = "process"
    /\ doc.npages = 2
    /\ Len(ModelRequests) = 3 * doc.npages + 1
    /\ \E k \in 1..Len(calls) : ModelRequest(calls[k]) /\ ~calls[k].ok

\* C26: provided every external call returns or raises, every pipeline run
\* reaches a terminal outcome: process returns the content or raises.
C26_PipelineRunTerminates ==
    (entry = "process") => <>(pc = "done" /\ outcome \in {"returned", "raised"})

\* A run on the largest document that asked the model for every page in every
\* stage and returned.
C26_Witness ==
    /\ entry = "process"
    /\ pc = "done"
    /\ outcome = "returned"
    /\ doc.npages = MaxPages
    /\ Len(ModelRequests) = 3 * MaxPages + 1

TableRequestFailed == \E k \in 1..Len(TablePagesSent) : ~TablePagesSent[k].ok

\* C27: when a request of the LLM table method raises, the method returns []:
\* the failed request is the last one issued (the remaining pages are not
\* requested), the records of the pages before it are dropped, and nothing is
\* raised to the caller; in a pipeline run the tables field is the empty list.
C27_FailedTableRequestGivesNoTables ==
    TableRequestFailed
        => /\ ~TablePagesSent[Len(TablePagesSent)].ok
           /\ \A k \in 1..(Len(TablePagesSent) - 1) : TablePagesSent[k].ok
           /\ pc = "extract_tables_return" => ret = <<>>
           /\ (entry = "extract_tables" /\ pc = "done")
                 => (outcome = "returned" /\ final = <<>>)
           /\ (entry = "process" /\ Has("tables")) => state["tables"] = <<>>
           /\ entry = "extract_tables" => outcome # "raised"

\* The first page was answered with a table, the request for the second
\* raised, and extract_tables has returned.
C27_Witness ==
    /\ TableRequestFailed
    /\ entry = "extract_tables"
    /\ pc = "done"
    /\ Len(TablePagesSent) = 2
    /\ HasTables(TablePagesSent[1].val)

\* C28: in every step of a run each field present in the workflow state,
\* pdf_path included, stays present with the value it has: the table stage
\* does not alter text, the image stage alters neither text nor tables, and
\* the combination alters none of text, tables and images.
C28_EarlierFieldsUnchanged ==
    [][\A k \in DOMAIN state : k \in DOMAIN state' /\ state'[k] = state[k]]_vars

\* A run that has written text, tables, images and the final content, none of
\* them empty.
C28_Witness ==
    /\ DOMAIN state = {"pdf_path", "text", "tables", "images", "final_content"}
    /\ state["pdf_path"] = PdfPath
    /\ state["text"] # <<>>
    /\ state["tables"] # <<>>
    /\ state["images"] # <<>>
    /\ state["final_content"] # state["text"]

\* The requests of the LLM table method that gave a record, in the order sent.
RecordRequests == SelectSeq(TablePagesSent, LAMBDA c : c.ok /\ HasTables(c.val))

\* C29: for every page selector, each record of the LLM table method carries
\* the 1-based number of the page whose image was sent to the model for it.
C29_RecordCarriesPageSent ==
    pc = "_extract_with_llm_page"
        => /\ Len(result) = Len(RecordRequests)
           /\ \A k \in 1..Len(result) : result[k].page = RecordRequests[k].page

\* What the LLM OCR returns for the requests of this run: the transcript of
\* the answers, or "" when the rasterizer or a request raised.
VisionResult ==
    IF OcrRasterized /\ ~OcrRequestFailed THEN Transcript(OcrRequests) ELSE <<>>

\* C30: whenever extract_text has escalated to the LLM OCR, what it returns is
\* the LLM OCR's result, whatever the deterministic extraction gave (text
\* still holds it): when the LLM OCR failed on a document whose text layer has
\* 1 to 99 tokens, extract_text returns "", and the pipeline stores that.
C30_EscalationReturnsVisionResult ==
    /\ (pc = "extract_text_return" /\ InTrace("_extract_with_llm_ocr"))
          => /\ ret = VisionResult
             /\ ~(OcrRasterized /\ ~OcrRequestFailed) => ret = <<>>
    /\ (entry = "extract_text" /\ pc = "done" /\ InTrace("_extract_with_llm_ocr"))
          => final = VisionResult
    /\ (entry = "process" /\ pc = "_extract_tables" /\ InTrace("_extract_with_llm_ocr"))
          => state["text"] = VisionResult

\* The text layer gave "Hello world", the LLM OCR was tried and a request
\* raised: extract_text is about to return "".
C30_Witness ==
    /\ pc = "extract_text_return"
    /\ InTrace("_extract_with_llm_ocr")
    /\ text = HelloWorld \o NL2
    /\ OcrRequestFailed
    /\ ret = <<>>

\* The description requests issued so far, in the order issued.
DescriptionRequests ==
    SelectSeq(calls, LAMBDA c : c.by = "_generate_description" /\ c.fn = "invoke")
DescriptionRequestFailed == \E k \in 1..Len(DescriptionRequests) : ~DescriptionRequests[k].ok

\* The description the record of a request carries.
DescriptionOf(c) == IF c.ok THEN c.val ELSE DescriptionUnavailable

\* C31: a description request that raises is isolated to its page: the page
\* still gives a record, whose description is "Image description
\* unavailable", the pages after it are requested and recorded in turn, and
\* extract_images raises only when makedirs or the write of an image raised,
\* never because a model request did.
C31_FailedDescriptionIsIsolated ==
    /\ pc = "extract_images_page"
          => /\ Len(result) = i
             /\ \A k \in 1..Len(result) :
                   /\ result[k].page = DescriptionRequests[k].page
                   /\ result[k].description = DescriptionOf(DescriptionRequests[k])
    /\ pc = "extract_images_return"
          => /\ Len(ret) = Len(DescriptionRequests)
             /\ Len(ret) = Len(images)
             /\ \A k \in 1..Len(ret) :
                   /\ ret[k].page = k
                   /\ ret[k].description = DescriptionOf(DescriptionRequests[k])
    /\ (entry \in {"extract_images", "process"} /\ outcome = "raised" /\ DescriptionRequestFailed)
          => \E k \in 1..Len(calls) :
                ~calls[k].ok /\ calls[k].fn \in {"save", "makedirs", "ainvoke"}

\* The description request for the first of two pages raised; both pages have
\* their record and the second carries the model's answer.
C31_Witness ==
    /\ pc = "extract_images_return"
    /\ Len(ret) = 2
    /\ ~DescriptionRequests[1].ok
    /\ DescriptionRequests[2].ok
    /\ ret[1].description = DescriptionUnavailable
    /\ ret[2].description # DescriptionUnavailable

\* C32: every model request of a pipeline run, from the LLM OCR, the LLM table
\* method, the image descriptions and the combination, is sent to the model
\* the agent was constructed with.
C32_RequestsGoToAgentModel ==
    entry = "process"
        => \A k \in 1..Len(calls) : ModelRequest(calls[k]) => calls[k].model = openai_model

\* A page read of the deterministic extraction raised.
PypdfPageFailed ==
    \E k \in 1..Len(calls) :
        calls[k].by = "_extract_with_pypdf" /\ calls[k].fn = "extract_text" /\ ~calls[k].ok

====
